---- MODULE Spec2Model ----
(***************************************************************************)
(* State-machine model of src/app.js, the WhatsApp <-> n8n bridge.         *)
(*                                                                         *)
(* Node runs the file on one thread: a handler runs without interruption   *)
(* up to its next `await`, and the code after the `await` runs as a later  *)
(* step.  Every action below is one such run-to-completion step.  The      *)
(* protocol library (Baileys), the QR renderer, the webhook and the HTTP   *)
(* clients are the environment: what they deliver is drawn from small      *)
(* sets with \E.                                                           *)
(*                                                                         *)
(* A JavaScript string is a sequence of literal pieces, e.g.               *)
(* <<"123", "@s.whatsapp.net">> is "123@s.whatsapp.net" and <<" ", "a">>   *)
(* is " a".  The empty sequence is the empty string.                       *)
(***************************************************************************)
EXTENDS Integers, Sequences, FiniteSets, TLC

VARIABLES
    started,      \* app.listen's callback has run (src/app.js:465)
    sock,         \* global `sock`: 0 is undefined, else a socket id
    isConnected,  \* global `isConnected`
    currentQR,    \* global `currentQR`: Null or a data-URL string
    nSockets,     \* sockets made so far by makeWASocket; ids 1..nSockets
    connects,     \* connectToWhatsApp calls suspended at `await useMultiFileAuthState`
    timers,       \* pending setTimeout(connectToWhatsApp) timers, by delay
    qrRenders,    \* connection.update handlers suspended at `await QRCode.toDataURL`
    lastClose,    \* how the handler took the last 'close': "none", "reconnect", "logout" (history)
    sockOpen,     \* the socket `sock` refers to is open, by the library's last report of it
    delivered,    \* every message the library handed to messages.upsert (history)
    posts,        \* every axios.post to the webhook, in issue order (history)
    relays,       \* handleIncomingMessage runs suspended at `await sendToN8n`
    handled,      \* handleIncomingMessage runs that returned after it (history)
    sends,        \* every sock.sendMessage call, in issue order (history)
    requests,     \* every POST /send request, with its responses (history)
    exited,       \* process.exit has been called
    signals,      \* SIGINT signals delivered so far (history)
    logouts       \* SIGINT handlers suspended at `await sock.logout()`

vars == <<started, sock, isConnected, currentQR, nSockets, connects, timers,
          qrRenders, lastClose, sockOpen, delivered, posts, relays, handled,
          sends, requests, exited, signals, logouts>>

connVars == <<sock, isConnected, currentQR, nSockets, connects, timers, qrRenders,
              lastClose, sockOpen>>
relayVars == <<delivered, posts, relays, handled>>
procVars == <<exited, signals, logouts>>

-----------------------------------------------------------------------------
(* Bounds of the model *)

MaxSockets == 2
MaxTimers == 2
MaxRenders == 1
MaxMessages == 2
MaxBatch == 2
MaxTextLen == 2
MaxFields == 2
MaxRequests == 1
MaxSignals == 1

-----------------------------------------------------------------------------
(* Program constants *)

LoggedOut == 401
ReconnectDelay == 5000
RetryDelay == 10000
Delays == {ReconnectDelay, RetryDelay}

SWhatsAppNet == "@s.whatsapp.net"
CUs == "@c.us"

-----------------------------------------------------------------------------
(* JavaScript values *)

Undef == [t |-> "undefined"]
Null == [t |-> "null"]
Str(s) == [t |-> "string", s |-> s]
Num(n) == [t |-> "number", n |-> n]
Obj(f) == [t |-> "object", f |-> f]

IsString(v) == v.t = "string"

\* JavaScript's ToBoolean, as `if (x)` and `!x` apply it.
Truthy(v) ==
    CASE v.t = "undefined" -> FALSE
      [] v.t = "null" -> FALSE
      [] v.t = "string" -> v.s # <<>>
      [] v.t = "number" -> v.n # 0
      [] OTHER -> TRUE

\* Property read `v.name` on a non-null value: own field of an object, undefined
\* on a primitive (none of the names read here exists on String or Number).
Get(v, name) ==
    IF v.t = "object" /\ name \in DOMAIN v.f THEN v.f[name] ELSE Undef

-----------------------------------------------------------------------------
(* Strings *)

RECURSIVE IndexOf(_, _, _)
\* Index of the first piece of s equal to piece p at or after i; 0 if none.
IndexOf(s, p, i) ==
    IF i > Len(s) THEN 0
    ELSE IF s[i] = p THEN i
    ELSE IndexOf(s, p, i + 1)

\* String.prototype.replace(p, ''): removes the first occurrence of p only.
ReplaceFirst(s, p) ==
    LET i == IndexOf(s, p, 1)
    IN  IF i = 0 THEN s
        ELSE SubSeq(s, 1, i - 1) \o SubSeq(s, i + 1, Len(s))

\* String.prototype.includes('@'): every piece that holds an '@' starts with it.
AtPieces == {SWhatsAppNet, CUs, "@g.us", "@lid"}
IncludesAt(s) == \E i \in 1..Len(s) : s[i] \in AtPieces

RECURSIVE TrimStart(_)
TrimStart(s) ==
    IF s # <<>> /\ Head(s) = " " THEN TrimStart(Tail(s)) ELSE s

RECURSIVE TrimEnd(_)
TrimEnd(s) ==
    IF s # <<>> /\ s[Len(s)] = " " THEN TrimEnd(SubSeq(s, 1, Len(s) - 1)) ELSE s

\* String.prototype.trim()
Trim(s) == TrimEnd(TrimStart(s))

-----------------------------------------------------------------------------
(* Connection lifecycle: connectToWhatsApp and its connection.update handler *)

Sockets == 1..nSockets

TimerCount == timers[ReconnectDelay] + timers[RetryDelay]

\* What a connection.update event carries: `connection` ("none" when the field
\* is absent), `qr` (<<>> when absent) and lastDisconnect?.error?.output?.statusCode
\* (0 when any link of the chain is undefined).
ConnectionValues == {"none", "connecting", "open", "close"}
QrTokens == {<<"abc123">>}
StatusCodes == {0, LoggedOut, 428}
Updates ==
    {u \in [connection : ConnectionValues, qr : QrTokens \cup {<<>>}, statusCode : StatusCodes] :
        /\ u.connection # "close" => u.statusCode = 0
        /\ u.connection = "none" => u.qr # <<>>}

\* QRCode.toDataURL(qr): the PNG data URL of the token.
ToDataURL(qr) == Str(<<"data:image/png;base64,">> \o qr)

\* src/app.js:72
ShouldReconnect(statusCode) == statusCode # LoggedOut

\* The listen callback: the first connectToWhatsApp() call, which runs up to its
\* `await useMultiFileAuthState`.
AppListen ==
    /\ ~exited
    /\ ~started
    /\ started' = TRUE
    /\ connects' = connects + 1
    /\ UNCHANGED <<sock, isConnected, currentQR, nSockets, timers, qrRenders,
                   lastClose, sockOpen, relayVars, sends, requests, procVars>>

\* A pending setTimeout fires and calls connectToWhatsApp(), which runs up to
\* its `await useMultiFileAuthState`.
TimerFires(d) ==
    /\ ~exited
    /\ timers[d] > 0
    /\ timers' = [timers EXCEPT ![d] = @ - 1]
    /\ connects' = connects + 1
    /\ UNCHANGED <<started, sock, isConnected, currentQR, nSockets, qrRenders,
                   lastClose, sockOpen, relayVars, sends, requests, procVars>>

\* connectToWhatsApp after the await: the auth state loaded, makeWASocket
\* returned, `sock` is overwritten and the three handlers are registered on the
\* new socket.  Handlers of earlier sockets stay registered on those sockets.
SetupSucceeds ==
    /\ ~exited
    /\ connects > 0
    /\ nSockets < MaxSockets
    /\ connects' = connects - 1
    /\ nSockets' = nSockets + 1
    /\ sock' = nSockets + 1
    /\ sockOpen' = FALSE
    /\ UNCHANGED <<started, isConnected, currentQR, timers, qrRenders,
                   lastClose, relayVars, sends, requests, procVars>>

SetupFailsGivesUp ==
    /\ ~exited
    /\ connects > 0
    /\ connects' = connects - 1
    /\ UNCHANGED <<started, sock, isConnected, currentQR, nSockets, timers, qrRenders,
                   lastClose, sockOpen, relayVars, sends, requests, procVars>>

\* connectToWhatsApp's catch: useMultiFileAuthState or makeWASocket threw.
SetupFails ==
    /\ ~exited
    /\ connects > 0
    /\ connects' = connects - 1
    /\ timers' = [timers EXCEPT ![RetryDelay] = @ + 1]
    /\ UNCHANGED <<started, sock, isConnected, currentQR, nSockets, qrRenders,
                   lastClose, sockOpen, relayVars, sends, requests, procVars>>

\* The handler's `if (connection === 'close') ... else if (connection === 'open')`
\* with currentQR holding qrNow when it is reached.
ConnectionBranch(u, qrNow) ==
    IF u.connection = "close"
    THEN /\ currentQR' = Null
         /\ isConnected' = FALSE
         /\ timers' = IF ShouldReconnect(u.statusCode)
                      THEN [timers EXCEPT ![ReconnectDelay] = @ + 1]
                      ELSE timers
         /\ lastClose' = IF ShouldReconnect(u.statusCode) THEN "reconnect" ELSE "logout"
    ELSE IF u.connection = "open"
    THEN /\ currentQR' = Null
         /\ isConnected' = TRUE
         /\ timers' = timers
         /\ lastClose' = lastClose
    ELSE /\ currentQR' = qrNow
         /\ isConnected' = isConnected
         /\ timers' = timers
         /\ lastClose' = lastClose

\* Socket s emits connection.update(u): the socket is then in the state the
\* event reports (open or not).  With a qr the handler suspends at `await QRCode.toDataURL(qr)`
\* before it looks at `connection`; without one it runs to its end.
OnConnectionUpdate(s, u) ==
    /\ ~exited
    /\ s \in Sockets
    /\ sockOpen' = IF s = sock /\ u.connection \in {"open", "close"}
                   THEN u.connection = "open"
                   ELSE sockOpen
    /\ u.connection = "close" /\ ShouldReconnect(u.statusCode)
          => TimerCount + connects < MaxTimers
    /\ IF u.qr # <<>>
       THEN /\ Len(qrRenders) < MaxRenders
            /\ qrRenders' = Append(qrRenders, u)
            /\ UNCHANGED <<currentQR, isConnected, timers, lastClose>>
       ELSE /\ ConnectionBranch(u, currentQR)
            /\ UNCHANGED qrRenders
    /\ UNCHANGED <<started, sock, nSockets, connects,
                   relayVars, sends, requests, procVars>>

\* QRCode.toDataURL settles for the i-th suspended handler, which resumes:
\* on success it assigns currentQR, on failure the catch only logs; then comes
\* the connection branch of the same update.
QrRendered(i, ok) ==
    /\ ~exited
    /\ i \in 1..Len(qrRenders)
    /\ LET u == qrRenders[i]
       IN  ConnectionBranch(u, IF ok THEN ToDataURL(u.qr) ELSE currentQR)
    /\ qrRenders' = SubSeq(qrRenders, 1, i - 1) \o SubSeq(qrRenders, i + 1, Len(qrRenders))
    /\ UNCHANGED <<started, sock, nSockets, connects, sockOpen,
                   relayVars, sends, requests, procVars>>

-----------------------------------------------------------------------------
(* HTTP surface *)

\* GET /qr-status
QrStatus == [connected |-> isConnected, qr |-> currentQR]

\* What express.json() leaves in req.body.to and req.body.text: Undef when the
\* field is absent, else its JSON value.
ToValues == {Undef, Str(<<>>), Str(<<"555">>), Str(<<"555", SWhatsAppNet>>), Num(555)}
TextValues == {Undef, Str(<<>>), Str(<<"ping">>), Num(7)}
Bodies == [to : ToValues, text : TextValues]

NotConnectedResponse ==
    [status |-> 503, error |-> "WhatsApp not connected", state |-> "disconnected"]
MissingFieldsResponse ==
    [status |-> 400, error |-> "Missing required fields: to, text"]
SendFailedResponse ==
    [status |-> 500, error |-> "Failed to send message"]
SentResponse(to) ==
    [status |-> 200, success |-> TRUE, to |-> to]

\* src/app.js:413
FormattedTo(to) == IF IncludesAt(to) THEN to ELSE to \o <<SWhatsAppNet>>

SendGateAlwaysOpen == TRUE

\* src/app.js:400: the connection gate of POST /send
SendGateOpen == isConnected

\* POST /send up to its first response or its `await sock.sendMessage`.  A truthy
\* `to` that is no string has no `includes`: the TypeError lands in the catch.
PostSend(body) ==
    /\ ~exited
    /\ started
    /\ Len(requests) < MaxRequests
    /\ LET id == Len(requests) + 1
           req == [body |-> body, connected |-> isConnected]
           answered(r) == req @@ [called |-> FALSE, awaiting |-> FALSE, settled |-> "none",
                                  responses |-> <<r>>]
       IN  IF ~SendGateOpen
           THEN /\ requests' = Append(requests, answered(NotConnectedResponse))
                /\ sends' = sends
           ELSE IF ~Truthy(body.to) \/ ~Truthy(body.text)
           THEN /\ requests' = Append(requests, answered(MissingFieldsResponse))
                /\ sends' = sends
           ELSE IF ~IsString(body.to)
           THEN /\ requests' = Append(requests, answered(SendFailedResponse))
                /\ sends' = sends
           ELSE /\ requests' = Append(requests,
                        req @@ [called |-> TRUE, awaiting |-> TRUE, settled |-> "none",
                                responses |-> <<>>])
                /\ sends' = Append(sends,
                        [sock |-> sock, to |-> FormattedTo(body.to.s), text |-> body.text,
                         origin |-> "api", ref |-> id, connected |-> isConnected])
    /\ UNCHANGED <<started, connVars, relayVars, procVars>>

\* sock.sendMessage settles for request i and the handler resumes.  After a
\* success the log line reads text.substring, which a non-string text lacks:
\* that TypeError lands in the catch as well.
SendSettles(i, ok) ==
    /\ ~exited
    /\ i \in 1..Len(requests)
    /\ requests[i].awaiting
    /\ LET r == requests[i]
           resp == IF ok /\ IsString(r.body.text)
                   THEN SentResponse(r.body.to)
                   ELSE SendFailedResponse
       IN  requests' = [requests EXCEPT ![i].awaiting = FALSE,
                                        ![i].settled = IF ok THEN "resolved" ELSE "rejected",
                                        ![i].responses = Append(@, resp)]
    /\ UNCHANGED <<started, connVars, relayVars, sends, procVars>>

-----------------------------------------------------------------------------
(* Inbound relay: messages.upsert, handleIncomingMessage, sendToN8n,        *)
(* sendWhatsAppReply                                                        *)

SeqsUpTo(S, n) == UNION {[1..k -> S] : k \in 0..n}

\* An inbound message: key.fromMe, key.remoteJid, and its envelope
\* message.message, given by `kind`, the first key of the envelope ("none" for
\* an absent or empty envelope) and `body`, the text field the code reads for
\* that kind (conversation, extendedTextMessage.text, imageMessage.caption).
\* key.id is the message's place in the delivery order; a delivered message
\* also carries its event's m.type and its index in m.messages.
Jids == {<<"123", SWhatsAppNet>>, <<"123", CUs>>, <<"123-456", "@g.us">>, <<"123", "@lid">>}
Texts == SeqsUpTo({" ", "a"}, MaxTextLen)
Envelopes ==
    {[kind |-> "conversation", body |-> Str(t)] : t \in Texts}
    \cup {[kind |-> "extendedTextMessage", body |-> b] : b \in {Str(t) : t \in Texts} \cup {Undef}}
    \cup {[kind |-> "imageMessage", body |-> b] : b \in {Str(t) : t \in Texts} \cup {Undef}}
    \cup {[kind |-> k, body |-> Undef] : k \in {"stickerMessage", "none"}}
Messages ==
    {[fromMe |-> f, remoteJid |-> j, kind |-> e.kind, body |-> e.body] :
        f \in BOOLEAN, j \in Jids, e \in Envelopes}
UpsertTypes == {"notify", "append"}

CleanFromNetOnly(from) == ReplaceFirst(from, SWhatsAppNet)

\* src/app.js:126
CleanFrom(from) == ReplaceFirst(ReplaceFirst(from, SWhatsAppNet), CUs)

\* src/app.js:116-124: TRUE when the code reaches line 126 with `text` set to
\* the message's body; FALSE when it returns at line 123.
TextBranch(msg) ==
    \/ msg.kind = "conversation"
    \/ msg.kind = "extendedTextMessage"
    \/ msg.kind = "imageMessage" /\ Truthy(msg.body)

\* src/app.js:128-134 (the timestamp is left out)
MessageData(msg) ==
    [from |-> CleanFrom(msg.remoteJid), text |-> Trim(msg.body.s),
     messageId |-> msg.id, messageType |-> msg.kind]

HandleIncomingMessageNewestFirst(msg) ==
    IF TextBranch(msg) /\ IsString(msg.body)
    THEN /\ posts' = <<MessageData(msg)>> \o posts
         /\ relays' = relays \cup {[id |-> msg.id, from |-> msg.remoteJid]}
    ELSE UNCHANGED <<posts, relays>>

\* handleIncomingMessage up to `await sendToN8n`, whose axios.post is issued
\* before the handler suspends.  A `text` that is no string has no `trim`: the
\* TypeError lands in the catch and nothing is posted.
HandleIncomingMessage(msg) ==
    IF TextBranch(msg) /\ IsString(msg.body)
    THEN /\ posts' = Append(posts, MessageData(msg))
         /\ relays' = relays \cup {[id |-> msg.id, from |-> msg.remoteJid]}
    ELSE UNCHANGED <<posts, relays>>

ForwardedFromAnyone(type, batch) ==
    IF batch = <<>> THEN 0
    ELSE IF type = "notify" THEN 1
    ELSE 0

\* src/app.js:94-97: which message of the event, if any, is handed to
\* handleIncomingMessage: 0 for none, else its index.
Forwarded(type, batch) ==
    IF batch = <<>> THEN 0
    ELSE IF ~batch[1].fromMe /\ type = "notify" THEN 1
    ELSE 0

\* Socket s emits messages.upsert with m.type = type and m.messages = batch.
OnMessagesUpsert(s, type, batch) ==
    /\ ~exited
    /\ s \in Sockets
    /\ LET stamped == [i \in 1..Len(batch) |->
                          batch[i] @@ [id |-> Len(delivered) + i, type |-> type, index |-> i]]
           k == Forwarded(type, batch)
       IN  /\ delivered' = delivered \o stamped
           /\ IF k = 0
              THEN UNCHANGED <<posts, relays>>
              ELSE HandleIncomingMessage(stamped[k])
    /\ UNCHANGED <<started, connVars, handled, sends, requests, procVars>>

\* What the webhook answers with (response.data): null, a string, a number or
\* an object holding at most MaxFields of the fields below.
Fields == {"reply", "message", "text", "response", "data", "other"}
FieldValues == {Null, Str(<<>>), Str(<<"hi">>), Str(<<"yo">>)}
ResponseObjects ==
    UNION {[F -> FieldValues] : F \in {G \in SUBSET Fields : Cardinality(G) <= MaxFields}}
Responses ==
    {Null, Str(<<>>), Str(<<"direct">>), Str(<<" ", "direct", " ">>), Num(0), Num(5)}
    \cup {Obj(f) : f \in ResponseObjects}

ResolveReplyMessageFirst(n8nResponse) ==
    IF ~Truthy(n8nResponse) THEN Null
    ELSE IF Truthy(Get(n8nResponse, "message")) THEN Get(n8nResponse, "message")
    ELSE IF Truthy(Get(n8nResponse, "reply")) THEN Get(n8nResponse, "reply")
    ELSE IF Truthy(Get(n8nResponse, "text")) THEN Get(n8nResponse, "text")
    ELSE IF IsString(n8nResponse) THEN n8nResponse
    ELSE IF Truthy(Get(n8nResponse, "response")) THEN Get(n8nResponse, "response")
    ELSE IF Truthy(Get(n8nResponse, "data")) THEN Get(n8nResponse, "data")
    ELSE Null

ResolveReplyObjectsOnly(n8nResponse) ==
    IF ~Truthy(n8nResponse) THEN Null
    ELSE IF Truthy(Get(n8nResponse, "reply")) THEN Get(n8nResponse, "reply")
    ELSE IF Truthy(Get(n8nResponse, "message")) THEN Get(n8nResponse, "message")
    ELSE IF Truthy(Get(n8nResponse, "text")) THEN Get(n8nResponse, "text")
    ELSE IF Truthy(Get(n8nResponse, "response")) THEN Get(n8nResponse, "response")
    ELSE IF Truthy(Get(n8nResponse, "data")) THEN Get(n8nResponse, "data")
    ELSE Null

\* src/app.js:141-161
ResolveReply(n8nResponse) ==
    IF ~Truthy(n8nResponse) THEN Null
    ELSE IF Truthy(Get(n8nResponse, "reply")) THEN Get(n8nResponse, "reply")
    ELSE IF Truthy(Get(n8nResponse, "message")) THEN Get(n8nResponse, "message")
    ELSE IF Truthy(Get(n8nResponse, "text")) THEN Get(n8nResponse, "text")
    ELSE IF IsString(n8nResponse) THEN n8nResponse
    ELSE IF Truthy(Get(n8nResponse, "response")) THEN Get(n8nResponse, "response")
    ELSE IF Truthy(Get(n8nResponse, "data")) THEN Get(n8nResponse, "data")
    ELSE Null

ShouldReplyUnlessUndefined(responseText) == responseText # Undef

\* src/app.js:163
ShouldReply(responseText) == Truthy(responseText)

SendToN8nErrorBody(ok, data) == data

\* src/app.js:175-194: what sendToN8n returns when axios.post resolved with
\* response.data = data (ok), and when it threw (an error response's body, if
\* any, is only logged).
SendToN8n(ok, data) == IF ok THEN data ELSE Null

ReplyTargetCleaned(r) == CleanFrom(r.from)

\* src/app.js:164: the address sendWhatsAppReply is called with
ReplyTarget(r) == r.from

\* The webhook call of relay r settles: sendToN8n returns response.data, or
\* null from its catch; the handler resolves the reply and, if there is one,
\* calls sock.sendMessage through sendWhatsAppReply.  Whatever that call does
\* afterwards is caught and logged there.
N8nResponds(r, ok, data) ==
    /\ ~exited
    /\ r \in relays
    /\ relays' = relays \ {r}
    /\ LET n8nResponse == SendToN8n(ok, data)
           responseText == ResolveReply(n8nResponse)
       IN  /\ handled' = handled \cup {[id |-> r.id, ok |-> ok, answer |-> n8nResponse]}
           /\ sends' = IF ShouldReply(responseText)
                       THEN Append(sends,
                               [sock |-> sock, to |-> ReplyTarget(r), text |-> responseText,
                                origin |-> "relay", ref |-> r.id, connected |-> isConnected])
                       ELSE sends
    /\ UNCHANGED <<started, connVars, delivered, posts, requests, procVars>>

-----------------------------------------------------------------------------
(* Process signals *)

\* process.on('SIGINT') up to process.exit(0) or, with a socket, to its
\* `await sock.logout()`.
Sigint ==
    /\ ~exited
    /\ signals < MaxSignals
    /\ signals' = signals + 1
    /\ IF sock # 0
       THEN logouts' = logouts + 1 /\ exited' = exited
       ELSE logouts' = logouts /\ exited' = TRUE
    /\ UNCHANGED <<started, connVars, relayVars, sends, requests>>

\* sock.logout() settles and a SIGINT handler resumes: after a resolved logout
\* it calls process.exit(0); a rejected logout ends the handler at the await,
\* and the rejection goes to the 'unhandledRejection' listener (src/app.js:476),
\* which logs it.
LogoutSettles(ok) ==
    /\ ~exited
    /\ logouts > 0
    /\ logouts' = logouts - 1
    /\ exited' = ok
    /\ UNCHANGED <<started, connVars, relayVars, sends, requests, signals>>

Init ==
    /\ started = FALSE
    /\ sock = 0
    /\ isConnected = FALSE
    /\ currentQR = Null
    /\ nSockets = 0
    /\ connects = 0
    /\ timers = [d \in Delays |-> 0]
    /\ qrRenders = <<>>
    /\ lastClose = "none"
    /\ sockOpen = FALSE
    /\ delivered = <<>>
    /\ posts = <<>>
    /\ relays = {}
    /\ handled = {}
    /\ sends = <<>>
    /\ requests = <<>>
    /\ exited = FALSE
    /\ signals = 0
    /\ logouts = 0

Next ==
    \/ AppListen
    \/ \E d \in Delays : TimerFires(d)
    \/ SetupSucceeds
    \/ SetupFails
    \/ \E s \in Sockets, u \in Updates : OnConnectionUpdate(s, u)
    \/ \E i \in 1..Len(qrRenders), ok \in BOOLEAN : QrRendered(i, ok)

Spec == Init /\ [][Next]_vars

\* POST /send against a connection that opens, closes and reconnects (no
\* pairing events: the route reads neither currentQR nor the renders).
SendUpdates ==
    {u \in Updates : /\ u.qr = <<>>
                     /\ u.connection \in {"open", "close"}
                     /\ u.statusCode \in {0, LoggedOut}}

NextSend ==
    \/ AppListen
    \/ \E d \in Delays : TimerFires(d)
    \/ SetupSucceeds
    \/ SetupFails
    \/ \E s \in Sockets, u \in SendUpdates : OnConnectionUpdate(s, u)
    \/ \E body \in Bodies : PostSend(body)
    \/ \E i \in 1..Len(requests), ok \in BOOLEAN : SendSettles(i, ok)

SpecSend == Init /\ [][NextSend]_vars

\* The relay on events of up to MaxBatch messages of a few shapes, with a few
\* webhook answers.
RelayAnswers ==
    {Str(<<"direct">>), Obj([reply |-> Str(<<"hi">>)]), Obj([other |-> Str(<<"hi">>)])}

EventMessages ==
    {m \in Messages : /\ m.remoteJid = <<"123", SWhatsAppNet>>
                      /\ m.kind \in {"conversation", "stickerMessage"}
                      /\ m.body \in {Str(<<"a">>), Undef}}

NextRelay ==
    \/ AppListen
    \/ SetupSucceeds
    \/ \E s \in Sockets, type \in UpsertTypes, batch \in SeqsUpTo(EventMessages, MaxBatch) :
          /\ Len(delivered) + Len(batch) <= MaxMessages
          /\ OnMessagesUpsert(s, type, batch)
    \/ \E r \in relays, ok \in BOOLEAN, data \in RelayAnswers : N8nResponds(r, ok, data)

SpecRelay == Init /\ [][NextRelay]_vars

\* The reply resolution on one inbound message, with every webhook answer.
NextResolve ==
    \/ AppListen
    \/ SetupSucceeds
    \/ \E s \in Sockets, msg \in EventMessages :
          /\ delivered = <<>>
          /\ OnMessagesUpsert(s, "notify", <<msg>>)
    \/ \E r \in relays, ok \in BOOLEAN, data \in Responses : N8nResponds(r, ok, data)

SpecResolve == Init /\ [][NextResolve]_vars

\* handleIncomingMessage on one event of one message, of every shape.
NextNormalize ==
    \/ AppListen
    \/ SetupSucceeds
    \/ \E s \in Sockets, type \in UpsertTypes, msg \in Messages :
          /\ delivered = <<>>
          /\ OnMessagesUpsert(s, type, <<msg>>)

SpecNormalize == Init /\ [][NextNormalize]_vars

\* The reconnect loop with its timers firing when due.
NextRetry ==
    \/ AppListen
    \/ \E d \in Delays : TimerFires(d)
    \/ SetupSucceeds
    \/ SetupFails
    \/ \E s \in Sockets, u \in SendUpdates : OnConnectionUpdate(s, u)

SpecRetry == Init /\ [][NextRetry]_vars /\ \A d \in Delays : WF_vars(TimerFires(d))

\* The connection lifecycle with interrupt signals.
NextShutdown ==
    \/ AppListen
    \/ \E d \in Delays : TimerFires(d)
    \/ SetupSucceeds
    \/ SetupFails
    \/ \E s \in Sockets, u \in SendUpdates : OnConnectionUpdate(s, u)
    \/ Sigint
    \/ \E ok \in BOOLEAN : LogoutSettles(ok)

SpecShutdown == Init /\ [][NextShutdown]_vars

\* Several senders relayed at once: one-message notify events from different
\* addresses, answered in any order.
SenderJids == {<<"123", SWhatsAppNet>>, <<"456", SWhatsAppNet>>, <<"456", CUs>>}
SenderMessages ==
    {[fromMe |-> FALSE, remoteJid |-> j, kind |-> "conversation", body |-> Str(<<"a">>)] :
        j \in SenderJids}

NextSenders ==
    \/ AppListen
    \/ SetupSucceeds
    \/ \E s \in Sockets, msg \in SenderMessages :
          /\ Len(delivered) < MaxMessages
          /\ OnMessagesUpsert(s, "notify", <<msg>>)
    \/ \E r \in relays, ok \in BOOLEAN, data \in RelayAnswers : N8nResponds(r, ok, data)

SpecSenders == Init /\ [][NextSenders]_vars

\* The relay on a connection that opens, closes and reconnects; the library
\* delivers messages on the current socket while it is open.
NextRelayConn ==
    \/ AppListen
    \/ \E d \in Delays : TimerFires(d)
    \/ SetupSucceeds
    \/ SetupFails
    \/ \E s \in Sockets, u \in SendUpdates : OnConnectionUpdate(s, u)
    \/ \E s \in Sockets, msg \in {m \in SenderMessages : m.remoteJid[2] = SWhatsAppNet} :
          /\ s = sock /\ sockOpen
          /\ Len(delivered) < MaxMessages
          /\ OnMessagesUpsert(s, "notify", <<msg>>)
    \/ \E r \in relays, ok \in BOOLEAN, data \in RelayAnswers : N8nResponds(r, ok, data)

SpecRelayConn == Init /\ [][NextRelayConn]_vars

-----------------------------------------------------------------------------
(* Properties *)

ApiSends(i) == {k \in 1..Len(sends) : sends[k].origin = "api" /\ sends[k].ref = i}
RelaySends(id) == {k \in 1..Len(sends) : sends[k].origin = "relay" /\ sends[k].ref = id}
PostsOf(id) == {k \in 1..Len(posts) : posts[k].messageId = id}

\* C1: at most one reconnect timer is pending at any time; a 'close' event that
\* arrives while a timer is pending schedules no second one.
C1_AtMostOneReconnectTimer == TimerCount <= 1

\* C2: GET /qr-status never reports a pairing QR together with connected: true,
\* i.e. isConnected implies currentQR is null, in every reachable state.
C2_NoQrWhileConnected == QrStatus.connected => QrStatus.qr = Null

\* C3: a POST /send handled while isConnected is false is answered with the one
\* response 503 {error: "WhatsApp not connected", status: "disconnected"} and
\* makes no sock.sendMessage call, whatever its body holds.
C3_NotConnectedRejected ==
    \A i \in 1..Len(requests) :
        ~requests[i].connected =>
            /\ requests[i].responses = <<NotConnectedResponse>>
            /\ ~requests[i].called
            /\ ~requests[i].awaiting
            /\ ApiSends(i) = {}

\* A well-formed request was handled while disconnected, with a socket at hand.
C3_Witness ==
    \E i \in 1..Len(requests) :
        /\ ~requests[i].connected
        /\ requests[i].body = [to |-> Str(<<"555">>), text |-> Str(<<"ping">>)]
        /\ requests[i].responses # <<>>
        /\ sock # 0

\* C4: every POST /send gets exactly one response: 503 if not connected, else
\* 400 if `to` or `text` is missing (absent or empty), else 200 if
\* sock.sendMessage succeeds and 500 if it fails; and sock.sendMessage is called
\* if and only if the state is connected and both fields are present.
C4_SendResponseByCase ==
    \A i \in 1..Len(requests) :
        LET r == requests[i]
            present == Truthy(r.body.to) /\ Truthy(r.body.text)
        IN  /\ Len(r.responses) = IF r.awaiting THEN 0 ELSE 1
            /\ r.called <=> (r.connected /\ present)
            /\ ApiSends(i) # {} <=> r.called
            /\ ~r.awaiting =>
                  r.responses[1].status =
                      IF ~r.connected THEN 503
                      ELSE IF ~present THEN 400
                      ELSE IF r.settled = "resolved" THEN 200
                      ELSE 500

\* C5: a message with key.fromMe true never causes a webhook POST nor an
\* outbound reply, whatever events are delivered.
C5_SelfMessagesNeverRelayed ==
    \A i \in 1..Len(delivered) :
        delivered[i].fromMe =>
            /\ PostsOf(delivered[i].id) = {}
            /\ RelaySends(delivered[i].id) = {}
            /\ \A r \in relays \cup handled : r.id # delivered[i].id

\* A text message of the session's own came first in a notify event, and a
\* message from someone else was relayed and answered.
C5_Witness ==
    /\ \E i \in 1..Len(delivered) :
          /\ delivered[i].fromMe
          /\ delivered[i].type = "notify"
          /\ delivered[i].index = 1
          /\ delivered[i].kind = "conversation"
    /\ \E j \in 1..Len(delivered) :
          ~delivered[j].fromMe /\ RelaySends(delivered[j].id) # {}

\* An envelope of a recognized kind: plain text, extended text with a text, or
\* an image with a caption.
RecognizedKind(d) ==
    /\ IsString(d.body)
    /\ \/ d.kind \in {"conversation", "extendedTextMessage"}
       \/ d.kind = "imageMessage" /\ d.body.s # <<>>

\* C6: every inbound (non-self, recognized-kind) message the protocol layer
\* delivers results in exactly one webhook POST, also when one messages.upsert
\* event carries several messages.
C6_OnePostPerInboundMessage ==
    \A i \in 1..Len(delivered) :
        LET d == delivered[i]
        IN  ~d.fromMe /\ d.type = "notify" /\ RecognizedKind(d)
                => Cardinality(PostsOf(d.id)) = 1

\* t is s without its leading and trailing whitespace.
IsTrimOf(t, s) ==
    /\ t # <<>> => t[1] # " " /\ t[Len(t)] # " "
    /\ \E a \in 0..Len(s) :
          /\ a + Len(t) <= Len(s)
          /\ SubSeq(s, a + 1, a + Len(t)) = t
          /\ \A j \in (1..a) \cup ((a + Len(t) + 1)..Len(s)) : s[j] = " "

\* f is the address jid without its transport suffix, for the suffixes the
\* bridge knows; an address with any other suffix is passed on as it is.
KnownSuffixes == {SWhatsAppNet, CUs}
IsStrippedOf(f, jid) ==
    IF jid[Len(jid)] \in KnownSuffixes
    THEN f \o <<jid[Len(jid)]>> = jid
    ELSE f = jid

HasReplyAndMessage(a) == a.t = "object" /\ {"reply", "message"} \subseteq DOMAIN a.f

\* C8 as stated: for every webhook response object that holds both a "reply"
\* and a "message" field, whatever their values, the reply sent is the value of
\* the "reply" field.
C8_ReplyFieldWins ==
    \A h \in handled :
        HasReplyAndMessage(h.answer) =>
            \E k \in RelaySends(h.id) : sends[k].text = h.answer.f["reply"]

\* C8 amended: for every webhook response object that holds both fields and
\* whose "reply" value is truthy (neither null nor the empty string), the reply
\* sent is the value of the "reply" field, whatever the "message" field holds.
C8_TruthyReplyFieldWins ==
    \A h \in handled :
        HasReplyAndMessage(h.answer) /\ Truthy(h.answer.f["reply"]) =>
            /\ Cardinality(RelaySends(h.id)) = 1
            /\ \A k \in RelaySends(h.id) : sends[k].text = h.answer.f["reply"]

\* A response with two different non-empty values was answered.
C8_Witness ==
    \E h \in handled :
        /\ HasReplyAndMessage(h.answer)
        /\ h.answer.f["reply"] = Str(<<"hi">>)
        /\ h.answer.f["message"] = Str(<<"yo">>)
        /\ RelaySends(h.id) # {}

\* C9 as stated: for every webhook response that is a string, that same string
\* is sent back to the sender.
C9_DirectStringSent ==
    \A h \in handled :
        IsString(h.answer) =>
            \E k \in RelaySends(h.id) :
                sends[k].text = h.answer /\ sends[k].to = delivered[h.id].remoteJid

\* C9 amended: for every webhook response that is a non-empty string, that
\* same string, unchanged, is sent back to the sender.
C9_NonEmptyDirectStringSent ==
    \A h \in handled :
        IsString(h.answer) /\ h.answer.s # <<>> =>
            /\ Cardinality(RelaySends(h.id)) = 1
            /\ \A k \in RelaySends(h.id) :
                  sends[k].text = h.answer /\ sends[k].to = delivered[h.id].remoteJid

\* A string with whitespace around it was sent back as it came.
C9_Witness ==
    \E h \in handled, k \in 1..Len(sends) :
        /\ h.answer = Str(<<" ", "direct", " ">>)
        /\ sends[k].origin = "relay" /\ sends[k].ref = h.id
        /\ sends[k].text = Str(<<" ", "direct", " ">>)

RecognizedFields == {"reply", "message", "text", "response", "data"}
NoReplyAnswer(a) ==
    \/ a = Null
    \/ a.t = "object" /\ DOMAIN a.f \cap RecognizedFields = {}

\* C10: when the webhook response is null or absent, or an object with none of
\* the fields reply, message, text, response, data, the resolved reply is null
\* and no sock.sendMessage call is made for that inbound message.
C10_NoReplyNoSend ==
    \A h \in handled :
        NoReplyAnswer(h.answer) =>
            /\ ResolveReply(h.answer) = Null
            /\ RelaySends(h.id) = {}

\* A webhook call succeeded with an object holding only an unrecognized field.
C10_Witness ==
    \E h \in handled :
        /\ h.ok
        /\ h.answer = Obj([other |-> Str(<<"hi">>)])
        /\ RelaySends(h.id) = {}

\* C11: after a 'close' event with the logout code the session stays
\* disconnected for good: while the last 'close' handled is a logout, no
\* connectToWhatsApp call is made, whatever events came before.
C11_NoReconnectAfterLogout ==
    [][lastClose = "logout" /\ lastClose' = "logout" => connects' <= connects]_vars

\* C12: a connection attempt that fails during setup always schedules another
\* attempt and never ends the process: every attempt that ends without a socket
\* leaves one more retry timer, a pending retry timer with no attempt in flight
\* leads to a new connectToWhatsApp attempt, again and again, and the process
\* never exits.
C12_RetryForever ==
    /\ []~exited
    /\ [][connects' < connects /\ nSockets' = nSockets
             => timers'[RetryDelay] = timers[RetryDelay] + 1]_vars
    /\ (timers[RetryDelay] > 0 /\ connects = 0) ~> (connects > 0)

\* The first attempt failed during setup and its retry is pending.
C12_Witness ==
    /\ started
    /\ nSockets = 0
    /\ connects = 0
    /\ timers[RetryDelay] > 0

\* C13: after SIGINT the process logs the session out and exits, with or
\* without a socket and whatever the logout call's outcome: once every SIGINT
\* handler has run to its end, the process has exited.
C13_SigintExits == signals > 0 /\ logouts = 0 => exited

\* C14: a reply the webhook returns for an inbound message is sent to that
\* message's own unstripped remoteJid, also when several messages are relayed
\* at once.
C14_ReplyToOriginalSender ==
    \A k \in 1..Len(sends) :
        sends[k].origin = "relay" =>
            /\ sends[k].ref \in 1..Len(delivered)
            /\ sends[k].to = delivered[sends[k].ref].remoteJid

\* Two messages from different addresses were in flight together and were
\* answered in the reverse order; the first reply went to a suffixed address.
C14_Witness ==
    /\ Len(sends) = 2
    /\ sends[1].ref = 2 /\ sends[2].ref = 1
    /\ delivered[1].remoteJid # delivered[2].remoteJid
    /\ sends[1].to = <<"456", CUs>>

\* C15: a reply that comes from the relay is never passed to sock.sendMessage
\* while isConnected is false; when the connection closes between the inbound
\* message and the webhook's answer, the reply is dropped.
C15_NoRelaySendWhileDisconnected ==
    \A k \in 1..Len(sends) : sends[k].origin = "relay" => sends[k].connected

\* C16: the relay is at-most-once: at most one webhook POST per inbound message;
\* when the POST fails it is not repeated, no reply is sent, and the handler
\* returns.
C16_AtMostOnceRelay ==
    /\ \A i \in 1..Len(delivered) : Cardinality(PostsOf(delivered[i].id)) <= 1
    /\ \A h \in handled :
          ~h.ok =>
              /\ Cardinality(PostsOf(h.id)) = 1
              /\ RelaySends(h.id) = {}
              /\ \A r \in relays : r.id # h.id

\* A webhook call failed and its handler returned.
C16_Witness ==
    \E h \in handled : ~h.ok /\ PostsOf(h.id) # {} /\ relays = {}

\* C17: webhook POSTs are issued in arrival order: of two forwarded messages the
\* one delivered first is posted first, whatever the order of their replies.
C17_PostsInArrivalOrder ==
    \A k1, k2 \in 1..Len(posts) :
        k1 < k2 => posts[k1].messageId < posts[k2].messageId

\* Two messages were posted and the second was answered while the first still
\* waits for the webhook.
C17_Witness ==
    /\ Len(posts) = 2
    /\ \E h \in handled : h.id = posts[2].messageId /\ RelaySends(h.id) # {}
    /\ \E r \in relays : r.id = posts[1].messageId

\* C18: whenever isConnected is true, `sock` is a socket that is open: events
\* of a superseded socket never leave isConnected true while `sock` refers to a
\* socket that is not open.
C18_ConnectedHandleIsOpen == isConnected => sock # 0 /\ sockOpen

====
